---- MODULE Spec2Model ----
(***************************************************************************)
(* Model of ugs_discord_bot.py: a watcher that polls the Canvas            *)
(* quiz_assignment_overrides endpoint, normalizes the payload into an      *)
(* index {str(quiz_id): [sorted due entries]}, diffs it against the        *)
(* snapshot on disk and posts a report to a Discord channel.               *)
(*                                                                         *)
(* JSON values.  Every value is a record tagged by its Python type in the  *)
(* field t.  A scalar is [t, v] with v the Python str() of the value (t    *)
(* is "null", "bool", "int" or "str"; numbers are integers); an object is  *)
(* [t |-> "dict", d |-> f] with f the function from its keys to values;    *)
(* an array is [t |-> "list", l |-> s] with s the sequence of its          *)
(* elements.  The values under quiz_id and under the five due keys are     *)
(* scalars.  An index (snapshot) is a function from identifiers to         *)
(* sequences of entries, each entry a dict value.  Python strings are      *)
(* TLA+ strings over printable ASCII; in the report text the non-ASCII     *)
(* glyphs are written with ASCII stand-ins and the backquote as an         *)
(* apostrophe, the characters a TLA+ string can hold.                      *)
(***************************************************************************)
EXTENDS Integers, Sequences, FiniteSets, TLC

VARIABLES
    hashseed,      \* iteration order of str sets in this process (PYTHONHASHSEED)
    snapshotFile,  \* SNAPSHOT_FILE: [exists, valid, idx]
    etagFile,      \* ETAG_FILE: [exists, text]
    pc,            \* per task: position of the watcher coroutine ("idle": not created)
    data,          \* per task, local: payload returned by fetch_all_overrides_sync
    etag,          \* per task, local: ETag returned by fetch_all_overrides_sync
    not_modified,  \* per task, local: 304 flag returned by fetch_all_overrides_sync
    new_idx,       \* per task, local
    old_idx,       \* per task, local
    changes,       \* per task, locals added_q, removed_q, changed_q
    msg,           \* per task, local
    sent,          \* per task: contents handed to channel.send in the current iteration
    err,           \* per task: exception caught by the except clause of the iteration
    writes,        \* per task: files opened for writing in the current iteration
    snapAtStart,   \* per task: SNAPSHOT_FILE as the current iteration found it or as
                   \*           another task has left it since
    etagAtStart    \* per task: ETAG_FILE as the current iteration found it or as
                   \*           another task has left it since

vars == <<hashseed, snapshotFile, etagFile, pc, data, etag, not_modified,
          new_idx, old_idx, changes, msg, sent, err, writes, snapAtStart, etagAtStart>>

(***************************************************************************)
(* Python values                                                           *)
(***************************************************************************)
JNull == [t |-> "null", v |-> "None"]
JStr(s) == [t |-> "str", v |-> s]
JBool(b) == [t |-> "bool", v |-> IF b THEN "True" ELSE "False"]
JInt(n) == [t |-> "int", v |-> ToString(n)]
JDict(f) == [t |-> "dict", d |-> f]
JList(s) == [t |-> "list", l |-> s]

EmptyDict == JDict([k \in {} |-> JNull])
EmptyList == JList(<<>>)

\* str(x) of a scalar
PyStr(x) == x.v

\* bool(x): None, "", False, 0, {} and [] are falsy
Truthy(x) ==
    CASE x.t = "null" -> FALSE
      [] x.t = "str"  -> x.v # ""
      [] x.t = "bool" -> x.v = "True"
      [] x.t = "int"  -> x.v # "0"
      [] x.t = "dict" -> DOMAIN x.d # {}
      [] x.t = "list" -> x.l # <<>>

\* isinstance(x, dict): only a dict has the method get
IsDict(x) == x.t = "dict"

\* x is None
IsNone(x) == x.t = "null"

\* d.get(k), d.get(k, None)
Get(d, k) == IF k \in DOMAIN d.d THEN d.d[k] ELSE JNull

\* d.get(k, default)
GetDefault(d, k, default) == IF k \in DOMAIN d.d THEN d.d[k] ELSE default

\* The decimal numeral of a bool or an int: True is 1 and False is 0.
NumStr(x) == IF x.t = "bool" THEN (IF x.v = "True" THEN "1" ELSE "0") ELSE x.v

\* x == y: a bool and an int are compared as numbers, dicts by their items,
\* lists element by element, values of different types are unequal
RECURSIVE PyEq(_, _)
PyEq(x, y) ==
    IF x.t \in {"bool", "int"} /\ y.t \in {"bool", "int"} THEN NumStr(x) = NumStr(y)
    ELSE IF x.t # y.t THEN FALSE
    ELSE IF x.t = "dict"
         THEN /\ DOMAIN x.d = DOMAIN y.d
              /\ \A k \in DOMAIN x.d : PyEq(x.d[k], y.d[k])
    ELSE IF x.t = "list"
         THEN /\ Len(x.l) = Len(y.l)
              /\ \A i \in 1..Len(x.l) : PyEq(x.l[i], y.l[i])
    ELSE x.v = y.v

\* json.dumps of one character of a str: the quote, the backslash and the
\* control characters are escaped
EscapeChar(c) ==
    CASE c = "\"" -> "\\\""
      [] c = "\\" -> "\\\\"
      [] c = "\n" -> "\\n"
      [] c = "\r" -> "\\r"
      [] c = "\t" -> "\\t"
      [] c = "\f" -> "\\f"
      [] OTHER -> c

RECURSIVE JsonEscape(_)
JsonEscape(s) == IF s = "" THEN "" ELSE EscapeChar(Head(s)) \o JsonEscape(Tail(s))

\* json.dumps of a scalar
DumpsValue(x) ==
    CASE x.t = "null" -> "null"
      [] x.t = "str"  -> "\"" \o JsonEscape(x.v) \o "\""
      [] x.t = "bool" -> (IF x.v = "True" THEN "true" ELSE "false")
      [] x.t = "int"  -> x.v

\* The characters of the model's strings, in code point order.
Ascii == "\t\n\f\r !\"#$%&'()*+,-./0123456789:;<=>?@ABCDEFGHIJKLMNOPQRSTUVWXYZ[\\]^_abcdefghijklmnopqrstuvwxyz{|}~"

\* ord(c), up to an order-preserving renumbering
Ord(c) == CHOOSE i \in 1..Len(Ascii) : SubSeq(Ascii, i, i) = c

\* s < t for Python str: lexicographic by code point
RECURSIVE StrLess(_, _)
StrLess(s, t) ==
    IF t = "" THEN FALSE
    ELSE IF s = "" THEN TRUE
    ELSE IF Head(s) = Head(t) THEN StrLess(Tail(s), Tail(t))
    ELSE Ord(Head(s)) < Ord(Head(t))

\* sorted(S) for a set of str (the key order of json.dumps(..., sort_keys=True))
RECURSIVE SortedKeys(_)
SortedKeys(S) ==
    IF S = {} THEN <<>>
    ELSE LET m == CHOOSE x \in S : \A y \in S : x = y \/ StrLess(x, y)
         IN  <<m>> \o SortedKeys(S \ {m})

\* c.isspace() for the ASCII white space a TLA+ string can hold
IsSpace(c) == c \in {" ", "\t", "\n", "\r", "\f"}

RECURSIVE LStrip(_)
LStrip(s) == IF s # "" /\ IsSpace(Head(s)) THEN LStrip(Tail(s)) ELSE s

RECURSIVE RStrip(_)
RStrip(s) ==
    IF s # "" /\ IsSpace(SubSeq(s, Len(s), Len(s)))
    THEN RStrip(SubSeq(s, 1, Len(s) - 1))
    ELSE s

\* s.strip()
Strip(s) == RStrip(LStrip(s))

Digits == "0123456789"
IsDigit(c) == \E i \in 1..Len(Digits) : SubSeq(Digits, i, i) = c
DigitVal(c) == (CHOOSE i \in 1..Len(Digits) : SubSeq(Digits, i, i) = c) - 1

\* the digits of an int literal: one or more decimal digits, with single
\* underscores allowed between two digits
RECURSIVE DigitGroups(_, _)
DigitGroups(s, afterDigit) ==
    IF s = "" THEN afterDigit
    ELSE IF IsDigit(Head(s)) THEN DigitGroups(Tail(s), TRUE)
    ELSE IF Head(s) = "_" /\ afterDigit THEN DigitGroups(Tail(s), FALSE)
    ELSE FALSE

\* the value of the digits of s, underscores skipped
RECURSIVE DigitsValue(_, _)
DigitsValue(s, acc) ==
    IF s = "" THEN acc
    ELSE IF Head(s) = "_" THEN DigitsValue(Tail(s), acc)
    ELSE DigitsValue(Tail(s), 10 * acc + DigitVal(Head(s)))

\* int(s) succeeds: surrounding white space is stripped, then an optional
\* sign followed by the digits of an int literal
ParsesInt(s) ==
    LET body == Strip(s)
    IN  DigitGroups(IF body # "" /\ Head(body) \in {"+", "-"} THEN Tail(body) ELSE body,
                    FALSE)

\* int(s) when it succeeds
IntOf(s) ==
    LET body == Strip(s)
    IN  IF body # "" /\ Head(body) = "-" THEN 0 - DigitsValue(Tail(body), 0)
        ELSE IF body # "" /\ Head(body) = "+" THEN DigitsValue(Tail(body), 0)
        ELSE DigitsValue(body, 0)

(***************************************************************************)
(* Normalization for diffing                                               *)
(***************************************************************************)
DUE_KEYS == <<"due_at", "unlock_at", "lock_at", "title", "base">>

DueKeySet == {DUE_KEYS[i] : i \in 1..Len(DUE_KEYS)}

\* entry is a dict; on any other value entry.get raises AttributeError
normalize_due_entry(entry) == JDict([k \in DueKeySet |-> Get(entry, k)])

\* str(x or "")
StrOrEmpty(x) == IF Truthy(x) THEN PyStr(x) ELSE ""

\* sort_key_due with the base flag inverted, so that base entries come first
sort_key_due_base_first(entry) ==
    << StrOrEmpty(Get(entry, "title")),
       IF Truthy(Get(entry, "base")) THEN 0 ELSE 1,
       StrOrEmpty(Get(entry, "due_at")),
       StrOrEmpty(Get(entry, "unlock_at")),
       StrOrEmpty(Get(entry, "lock_at")) >>

sort_key_due(entry) ==
    << StrOrEmpty(Get(entry, "title")),
       IF Truthy(Get(entry, "base")) THEN 1 ELSE 0,
       StrOrEmpty(Get(entry, "due_at")),
       StrOrEmpty(Get(entry, "unlock_at")),
       StrOrEmpty(Get(entry, "lock_at")) >>

\* k1 < k2 for two sort_key_due tuples (Python tuple comparison)
KeyLess(k1, k2) ==
    IF k1[1] # k2[1] THEN StrLess(k1[1], k2[1])
    ELSE IF k1[2] # k2[2] THEN k1[2] < k2[2]
    ELSE IF k1[3] # k2[3] THEN StrLess(k1[3], k2[3])
    ELSE IF k1[4] # k2[4] THEN StrLess(k1[4], k2[4])
    ELSE StrLess(k1[5], k2[5])

\* Position at which a stable sort places x in the sorted list s:
\* after every element whose key is not greater than x's.
RECURSIVE InsertPos(_, _, _)
InsertPos(s, x, i) ==
    IF i > Len(s) THEN i
    ELSE IF KeyLess(sort_key_due(x), sort_key_due(s[i])) THEN i
    ELSE InsertPos(s, x, i + 1)

InsertDue(s, x) ==
    LET p == InsertPos(s, x, 1)
    IN  SubSeq(s, 1, p - 1) \o <<x>> \o SubSeq(s, p, Len(s))

\* norm_list.sort(key=sort_key_due): list.sort is stable
RECURSIVE SortDue(_)
SortDue(s) ==
    IF s = <<>> THEN <<>>
    ELSE InsertDue(SortDue(SubSeq(s, 1, Len(s) - 1)), s[Len(s)])

\* for ... in x is possible: a list yields its elements, a str its
\* characters, a dict its keys; on any other value it raises TypeError
Iterable(x) == x.t \in {"list", "str", "dict"}

\* the values that for ... in x yields (the keys of a dict are listed in
\* string order: each of them is a str)
IterSeq(x) ==
    CASE x.t = "list" -> x.l
      [] x.t = "str"  -> [i \in 1..Len(x.v) |-> JStr(SubSeq(x.v, i, i))]
      [] x.t = "dict" -> [i \in 1..Cardinality(DOMAIN x.d) |->
                             JStr(SortedKeys(DOMAIN x.d)[i])]

\* item.get("due_dates", []) or []
DueDatesOf(item) ==
    LET due_dates == GetDefault(item, "due_dates", EmptyList)
    IN  IF Truthy(due_dates) THEN due_dates ELSE EmptyList

\* out[str(qid)] = norm_list
SetItem(out, key, val) ==
    [k \in DOMAIN out \cup {key} |-> IF k = key THEN val ELSE out[k]]

EmptyIdx == [k \in {} |-> <<>>]

\* the outcome of normalize_payload_to_index: the exception raised ("" when
\* none) and the index returned
Returned(out) == [exc |-> "", out |-> out]
Raises(e) == [exc |-> e, out |-> EmptyIdx]

\* the for-loop over arr
RECURSIVE IndexLoop(_, _, _)
IndexLoop(arr, i, out) ==
    IF i > Len(arr) THEN Returned(out)
    ELSE IF ~IsDict(arr[i]) THEN Raises("AttributeError")
    ELSE LET item == arr[i]
             qid == Get(item, "quiz_id")
             due_dates == DueDatesOf(item)
         IN  IF IsNone(qid) THEN IndexLoop(arr, i + 1, out)
             ELSE IF ~Iterable(due_dates) THEN Raises("TypeError")
             ELSE IF \E j \in 1..Len(IterSeq(due_dates)) : ~IsDict(IterSeq(due_dates)[j])
                  THEN Raises("AttributeError")
             ELSE LET norm_list == SortDue([j \in 1..Len(IterSeq(due_dates)) |->
                                       normalize_due_entry(IterSeq(due_dates)[j])])
                  IN  IndexLoop(arr, i + 1, SetItem(out, PyStr(qid), norm_list))

normalize_payload_to_index(payload) ==
    IF ~IsDict(payload) THEN Raises("AttributeError")
    ELSE LET arr == GetDefault(payload, "quiz_assignment_overrides", EmptyList)
         IN  IF ~Iterable(arr) THEN Raises("TypeError")
             ELSE IndexLoop(IterSeq(arr), 1, EmptyIdx)

(***************************************************************************)
(* Iteration order of a set of str.  It is fixed by the process's string   *)
(* hash seed and differs from one run to the next; a seed is written as    *)
(* the sequence in which it arranges the strings of the model (a string    *)
(* it does not list comes after those it lists).                           *)
(***************************************************************************)
SetOrder(S, seed) ==
    SelectSeq(seed, LAMBDA x : x \in S)
        \o SortedKeys({x \in S : \A i \in 1..Len(seed) : seed[i] # x})

(***************************************************************************)
(* Diff logic                                                              *)
(***************************************************************************)
\* the for-loop over keys: one (k, (left.get(k), right.get(k))) per key with
\* left.get(k) != right.get(k)
RECURSIVE FieldDiffLoop(_, _, _, _, _)
FieldDiffLoop(left, right, keys, j, field_diffs) ==
    IF j > Len(keys) THEN field_diffs
    ELSE LET k == keys[j]
         IN  IF ~PyEq(Get(left, k), Get(right, k))
             THEN FieldDiffLoop(left, right, keys, j + 1,
                                Append(field_diffs, <<k, Get(left, k), Get(right, k)>>))
             ELSE FieldDiffLoop(left, right, keys, j + 1, field_diffs)

\* the for-loop over range(maxlen); i is the Python index
RECURSIVE ListDiffLoop(_, _, _, _, _)
ListDiffLoop(a, b, i, diffs, seed) ==
    LET maxlen == IF Len(a) > Len(b) THEN Len(a) ELSE Len(b)
    IN  IF i >= maxlen THEN diffs
        ELSE LET left  == IF i < Len(a) THEN a[i + 1] ELSE JNull
                 right == IF i < Len(b) THEN b[i + 1] ELSE JNull
                 field_diffs ==
                     IF IsNone(left) \/ IsNone(right)
                     THEN << <<"<entry>", left, right>> >>
                     ELSE FieldDiffLoop(left, right,
                                        SetOrder(DOMAIN left.d \cup DOMAIN right.d, seed),
                                        1, <<>>)
             IN  IF PyEq(left, right) THEN ListDiffLoop(a, b, i + 1, diffs, seed)
                 ELSE IF field_diffs # <<>>
                      THEN ListDiffLoop(a, b, i + 1, Append(diffs, <<i, field_diffs>>), seed)
                      ELSE ListDiffLoop(a, b, i + 1, diffs, seed)

list_diff(a, b, seed) == ListDiffLoop(a, b, 0, <<>>, seed)

\* Position at which a stable sort by int places q in the sorted list s.
RECURSIVE IntInsertPos(_, _, _)
IntInsertPos(s, q, i) ==
    IF i > Len(s) THEN i
    ELSE IF IntOf(q) < IntOf(s[i]) THEN i
    ELSE IntInsertPos(s, q, i + 1)

RECURSIVE IntSortSeq(_)
IntSortSeq(s) ==
    IF s = <<>> THEN <<>>
    ELSE LET r == IntSortSeq(SubSeq(s, 1, Len(s) - 1))
             p == IntInsertPos(r, s[Len(s)], 1)
         IN  SubSeq(r, 1, p - 1) \o <<s[Len(s)]>> \o SubSeq(r, p, Len(r))

\* sorted(S, key=int) raises ValueError when int() fails on an element
SortedRaises(S) == \E q \in S : ~ParsesInt(q)

\* sorted(S): the identifiers in string order instead of numeric order
SortedLexicographic(S, seed) == SortedKeys(S)

\* sorted(S, key=int): a stable sort of the set's iteration order
SortedByInt(S, seed) == IntSortSeq(SetOrder(S, seed))

\* the for-loop over the common identifiers
RECURSIVE ChangedLoop(_, _, _, _, _, _)
ChangedLoop(old, new, qids, j, changed_quizzes, seed) ==
    IF j > Len(qids) THEN changed_quizzes
    ELSE LET qid == qids[j]
             diffs == list_diff(old[qid], new[qid], seed)
         IN  IF diffs # <<>>
             THEN ChangedLoop(old, new, qids, j + 1,
                              Append(changed_quizzes, <<qid, diffs>>), seed)
             ELSE ChangedLoop(old, new, qids, j + 1, changed_quizzes, seed)

NoChanges == [raised |-> FALSE, added |-> <<>>, removed |-> <<>>, changed |-> <<>>]
Raised == [raised |-> TRUE, added |-> <<>>, removed |-> <<>>, changed |-> <<>>]

\* compute_changes_quiz that leaves out the identifiers int() rejects
\* instead of raising
compute_changes_skipping(old, new, seed) ==
    LET old_ids == {q \in DOMAIN old : ParsesInt(q)}
        new_ids == {q \in DOMAIN new : ParsesInt(q)}
    IN  [raised  |-> FALSE,
         added   |-> SortedByInt(new_ids \ old_ids, seed),
         removed |-> SortedByInt(old_ids \ new_ids, seed),
         changed |-> ChangedLoop(old, new, SortedByInt(old_ids \cap new_ids, seed),
                                 1, <<>>, seed)]

compute_changes_quiz(old, new, seed) ==
    LET old_ids == DOMAIN old
        new_ids == DOMAIN new
    IN  IF \/ SortedRaises(new_ids \ old_ids)
           \/ SortedRaises(old_ids \ new_ids)
           \/ SortedRaises(old_ids \cap new_ids)
        THEN Raised
        ELSE [raised  |-> FALSE,
              added   |-> SortedByInt(new_ids \ old_ids, seed),
              removed |-> SortedByInt(old_ids \ new_ids, seed),
              changed |-> ChangedLoop(old, new, SortedByInt(old_ids \cap new_ids, seed),
                                      1, <<>>, seed)]

\* if added_q or removed_q or changed_q
AnyChange(c) == c.added # <<>> \/ c.removed # <<>> \/ c.changed # <<>>

(***************************************************************************)
(* Rendering                                                               *)
(***************************************************************************)
fmt_dt(x) == IF Truthy(x) THEN PyStr(x) ELSE "null"

\* sep.join(parts)
RECURSIVE Join(_, _)
Join(parts, sep) ==
    IF parts = <<>> THEN ""
    ELSE IF Len(parts) = 1 THEN parts[1]
    ELSE parts[1] \o sep \o Join(Tail(parts), sep)

\* json.dumps(e) of None or of a dict whose keys are held in the given order
DumpsEntry(e, order) ==
    IF IsNone(e) THEN "null"
    ELSE "{" \o Join([j \in 1..Len(order) |->
                        "\"" \o order[j] \o "\": " \o DumpsValue(e.d[order[j]])], ", ") \o "}"

\* Key order of a dict of old_idx: load_snapshot reads what save_snapshot wrote
\* with sort_keys=True.
OldKeyOrder(e) == IF IsNone(e) THEN <<>> ELSE SortedKeys(DOMAIN e.d)

\* Key order of a dict of new_idx: normalize_due_entry inserts in DUE_KEYS order.
NewKeyOrder(e) == IF IsNone(e) THEN <<>> ELSE SelectSeq(DUE_KEYS, LAMBDA k : k \in DOMAIN e.d)

\* "<entry>" in fields
HasEntryKey(fields) == \E j \in 1..Len(fields) : fields[j][1] = "<entry>"

EntryField(fields) == fields[CHOOSE j \in 1..Len(fields) : fields[j][1] = "<entry>"]

\* one element of pretty for a field diff (k, (ov, nv))
PrettyField(f) ==
    IF f[1] \in {"due_at", "unlock_at", "lock_at"}
    THEN f[1] \o ": '" \o fmt_dt(f[2]) \o "' -> '" \o fmt_dt(f[3]) \o "'"
    ELSE f[1] \o ": '" \o PyStr(f[2]) \o "' -> '" \o PyStr(f[3]) \o "'"

\* the line appended for one (idx, fields)
DiffLine(d) ==
    LET idx == d[1]
        fields == d[2]
        pretty ==
            IF HasEntryKey(fields)
            THEN << "entry #" \o ToString(idx) \o ": "
                      \o DumpsEntry(EntryField(fields)[2], OldKeyOrder(EntryField(fields)[2]))
                      \o " -> "
                      \o DumpsEntry(EntryField(fields)[3], NewKeyOrder(EntryField(fields)[3])) >>
            ELSE [j \in 1..Len(fields) |-> PrettyField(fields[j])]
    IN  "   * " \o Join(pretty, "; ")

\* the lines appended for one (qid, diffs)
QuizLines(c) ==
    <<"- quiz '" \o c[1] \o "'">> \o [j \in 1..Len(c[2]) |-> DiffLine(c[2][j])]

RECURSIVE ChangedLines(_)
ChangedLines(changed_qids) ==
    IF changed_qids = <<>> THEN <<>>
    ELSE QuizLines(Head(changed_qids)) \o ChangedLines(Tail(changed_qids))

Backticked(qids) == [j \in 1..Len(qids) |-> "'" \o qids[j] \o "'"]

render_change_message_quiz(added_qids, removed_qids, changed_qids, course_id) ==
    LET lines ==
            (IF added_qids # <<>>
             THEN <<"**+ Quizzes added (new overrides):** " \o Join(Backticked(added_qids), ", ")>>
             ELSE <<>>)
            \o
            (IF removed_qids # <<>>
             THEN <<"**- Quizzes removed (overrides gone):** " \o Join(Backticked(removed_qids), ", ")>>
             ELSE <<>>)
            \o
            (IF changed_qids # <<>>
             THEN <<"**Overrides changed:**">> \o ChangedLines(changed_qids)
             ELSE <<>>)
        header == "@everyone Canvas changes detected for course '" \o course_id
                  \o "' (quiz_assignment_overrides)"
    IN  IF lines = <<>> THEN "" ELSE header \o "\n" \o Join(lines, "\n")

COURSE_ID == "1431941"

\* content[:1990]
DiscordCap == 1990
Truncate(content) ==
    IF Len(content) > DiscordCap THEN SubSeq(content, 1, DiscordCap) ELSE content

(***************************************************************************)
(* Bounded inputs                                                          *)
(***************************************************************************)
MaxGroupLen == 2    \* longest group of a snapshot drawn as an input of the differ
MaxIds == 3         \* most identifiers of a snapshot drawn for the identifier cases
MaxItems == 2       \* most items of a payload drawn for the grouping cases
MaxDue == 2         \* most due_dates records of the item drawn for the sorting cases

SeqsUpTo(S, n) == UNION {[1..k -> S] : k \in 0..n}

\* the sequences that list every member of S once
Arrangements(S) ==
    {s \in [1..Cardinality(S) -> S] : \A i, j \in 1..Cardinality(S) : i # j => s[i] # s[j]}

\* Raw due_dates records as Canvas returns them: keys may be missing and
\* keys outside DUE_KEYS may be present.
RawA == JDict([due_at |-> JStr("2025-01-01"), title |-> JStr(""), base |-> JBool(TRUE),
               id |-> JInt(7)])
RawB == JDict([due_at |-> JStr("2025-02-01"), unlock_at |-> JNull, title |-> JStr(""),
               base |-> JBool(TRUE)])
RawC == JDict([due_at |-> JStr("2025-01-01"), lock_at |-> JStr("2025-03-01"),
               title |-> JStr("Sec"), base |-> JBool(FALSE)])
RawD == JDict([due_at |-> JStr("2025-01-01"), lock_at |-> JStr("2025-03-01"),
               title |-> JStr("Sec"), base |-> JBool(TRUE), id |-> JInt(8)])
RawE == JDict([due_at |-> JStr("2025-01-01"), unlock_at |-> JStr("2024-12-01"),
               lock_at |-> JStr("2025-03-01"), title |-> JStr("Sec"), base |-> JBool(TRUE)])
RawF == JDict([due_at |-> JStr("2025-01-01"), lock_at |-> JStr("2025-04-01"),
               title |-> JStr("Sec"), base |-> JBool(TRUE)])
\* RawA with the base flag sent as the number 1
RawG == JDict([due_at |-> JStr("2025-01-01"), title |-> JStr(""), base |-> JInt(1)])

\* a record whose strings hold a quote, a backslash and a line feed
RawQ == JDict([due_at |-> JStr("l1\nl2"), title |-> JStr("Sec \"A\\B\""), base |-> JBool(TRUE)])

RawRecords == {RawA, RawB, RawC, RawD, RawE, RawF, RawG}

EntryA == normalize_due_entry(RawA)
EntryB == normalize_due_entry(RawB)
EntryC == normalize_due_entry(RawC)
EntryD == normalize_due_entry(RawD)
EntryG == normalize_due_entry(RawG)
EntryQ == normalize_due_entry(RawQ)

\* The entries of the drawn groups: they differ from one another in one
\* field, in several fields, or only in the type of the base flag.
Entries == {EntryA, EntryB, EntryD, EntryG}

\* The groups of a stored or freshly built snapshot are sorted.
Groups == {g \in SeqsUpTo(Entries, MaxGroupLen) : SortDue(g) = g}

\* Identifier cases: several identifiers, listed differently by string order
\* and by int(), two of them with the same int() value, and one that does
\* not parse, each with a short group.
IdUniverse == {"3", "0_3", "20", "3.5"}
IdSnapshots ==
    UNION {[ids -> {<<>>, <<EntryA>>}] :
              ids \in {S \in SUBSET IdUniverse : Cardinality(S) <= MaxIds}}

\* Group cases: one identifier with every sorted group.
GroupSnapshots == [{"10"} -> Groups]

\* Hash seeds.  Any arrangement of the five field names can come out of
\* set(left) | set(right), and any arrangement of the identifiers out of the
\* identifier sets.
KeySeeds == {k \o <<"10", "3", "0_3", "20", "3.5">> : k \in Arrangements(DueKeySet)}
IdSeeds == {DUE_KEYS \o <<"10">> \o i : i \in Arrangements(IdUniverse)}
HashSeeds == KeySeeds \cup IdSeeds

\* Hash seeds of the watcher's runs.  Two indexes of the catalogue differ in
\* at most one field of an entry and no two of their identifiers have the
\* same int() value, so no report of the watcher depends on the seed; its
\* runs are drawn for the arrangements of the field names that CPython gives
\* under PYTHONHASHSEED 0, 1 and 2.
WatcherSeeds ==
    {s \in KeySeeds :
        SubSeq(s, 1, 5) \in {<<"lock_at", "due_at", "base", "title", "unlock_at">>,
                             <<"due_at", "unlock_at", "base", "lock_at", "title">>,
                             <<"lock_at", "due_at", "base", "unlock_at", "title">>}}

\* what fetch_all_overrides_sync returns for a response whose joined list is items
Payload(items) == JDict([quiz_assignment_overrides |-> JList(items)])

\* Payloads for the indexer.  Sorting cases: one item with every list of raw
\* records.  Grouping cases: several items whose quiz_id is absent, a number,
\* the same number as a string or another number, each with a short list or
\* without due_dates; items whose due_dates is null, is a number or holds a
\* record that is not an object; items that are not objects.
QuizIds == {JNull, JInt(10), JStr("10"), JInt(3)}
Item(q, d) == JDict([quiz_id |-> q, due_dates |-> d])
SortingPayloads ==
    {Payload(<<Item(JInt(10), JList(d))>>) : d \in SeqsUpTo(RawRecords, MaxDue)}
Items ==
    {Item(q, JList(d)) : q \in QuizIds, d \in {<<>>, <<RawA>>, <<RawB>>}}
    \cup {JDict([quiz_id |-> JInt(3)]),
          Item(JInt(3), JNull),
          Item(JInt(3), JInt(5)),
          Item(JInt(10), JList(<<RawA, JStr("x")>>)),
          Item(JNull, JList(<<JStr("x")>>)),
          JStr("rate limited"),
          EmptyList}
GroupingPayloads == {Payload(items) : items \in SeqsUpTo(Items, MaxItems)}
PayloadSpace == SortingPayloads \cup GroupingPayloads

\* What the endpoint serves at one time or another: no overrides, an
\* override of quiz 10, the same with another due date, an identifier that
\* int() rejects, and an error body in place of the list.
PayloadCatalogue ==
    << Payload(<<>>),
       Payload(<< Item(JInt(10), JList(<<RawA>>)) >>),
       Payload(<< Item(JInt(10), JList(<<RawB>>)) >>),
       Payload(<< Item(JStr("3.5"), JList(<<RawA>>)) >>),
       Payload(<< JStr("rate limited") >>) >>

\* The ETag header the server computes for a payload.
ETagOf(p) == "W/" \o ToString(p)

(***************************************************************************)
(* Snapshot and ETag files                                                 *)
(***************************************************************************)
NoSnapshot == [exists |-> FALSE, valid |-> FALSE, idx |-> EmptyIdx]
NoEtag == [exists |-> FALSE, text |-> ""]

\* SNAPSHOT_FILE after a completed save_snapshot(idx)
Stored(idx) == [exists |-> TRUE, valid |-> TRUE, idx |-> idx]

\* SNAPSHOT_FILE after a write_text that opened (and so truncated) the file
\* and failed before the text was complete: what is left is not JSON
Truncated == [exists |-> TRUE, valid |-> FALSE, idx |-> EmptyIdx]

\* {} when the file is missing or json.loads raises
load_snapshot(file) == IF file.exists /\ file.valid THEN file.idx ELSE EmptyIdx

\* the If-None-Match header set by fetch_all_overrides_sync ("" when not set)
IfNoneMatch(file) == IF file.exists THEN Strip(file.text) ELSE ""

(***************************************************************************)
(* The watcher tasks                                                       *)
(*                                                                         *)
(* on_ready creates a watcher task each time the READY event arrives, and  *)
(* the event arrives again when the gateway session is re-established.     *)
(* The tasks share the event loop, the two files and the channel.  A task  *)
(* gives up the loop only at its awaits (the fetch, the send and the       *)
(* sleep); it is resumed, and an event handler is run, only when no other  *)
(* task is running.  A step of a task at an await is the awaited operation *)
(* together with the resumption that assigns its result.  The fetch runs   *)
(* in a worker thread (asyncio.to_thread), at any time, also while another *)
(* task is running: it reads ETAG_FILE, which write_text of another task   *)
(* may just have opened, and so emptied, without having written it yet.    *)
(***************************************************************************)
Tasks == {1, 2}

\* the value of a local in every task when only task 1 holds one
OnlyFirst(v, rest) == [w \in Tasks |-> IF w = 1 THEN v ELSE rest]

Locals == <<data, etag, not_modified, new_idx, old_idx, changes, msg, sent, err>>
Files == <<snapshotFile, etagFile, writes>>
History == <<snapAtStart, etagAtStart>>

\* A snapshot that STATE_DIR holds from before the process started and that
\* this program did not write: one of its identifiers is not an integer.
ForeignIdx == [q \in {"3.5"} |-> <<EntryA>>]

InitLocals ==
    /\ data = [w \in Tasks |-> EmptyDict]
    /\ etag = [w \in Tasks |-> ""]
    /\ not_modified = [w \in Tasks |-> FALSE]
    /\ new_idx = [w \in Tasks |-> EmptyIdx]
    /\ old_idx = [w \in Tasks |-> EmptyIdx]
    /\ changes = [w \in Tasks |-> NoChanges]
    /\ msg = [w \in Tasks |-> ""]
    /\ sent = [w \in Tasks |-> <<>>]
    /\ err = [w \in Tasks |-> ""]

InitFiles ==
    /\ snapshotFile = NoSnapshot
    /\ etagFile = NoEtag
    /\ writes = [w \in Tasks |-> <<>>]
    /\ snapAtStart = [w \in Tasks |-> NoSnapshot]
    /\ etagAtStart = [w \in Tasks |-> NoEtag]

\* bot.run: no READY event has arrived yet; STATE_DIR is empty or holds a
\* snapshot from before
Init ==
    /\ hashseed \in WatcherSeeds
    /\ pc = [w \in Tasks |-> "idle"]
    /\ InitLocals
    /\ snapshotFile \in {NoSnapshot, Stored(ForeignIdx)}
    /\ etagFile = NoEtag
    /\ writes = [w \in Tasks |-> <<>>]
    /\ snapAtStart = [w \in Tasks |-> snapshotFile]
    /\ etagAtStart = [w \in Tasks |-> NoEtag]

\* task u is running on the event loop, between two of its awaits
Busy(u) ==
    \/ pc[u] \in {"load", "diff", "render", "save_etag", "write_etag"}
    \/ pc[u] = "save_snapshot" /\ sent[u] = <<>>

\* the event loop can resume task w: no other task is running
CanRun(w) == \A u \in Tasks \ {w} : ~Busy(u)

\* on_ready: bot.loop.create_task(watcher())
OnReady ==
    /\ \A u \in Tasks : ~Busy(u)
    /\ \E w \in Tasks :
          /\ pc[w] = "idle"
          /\ \A u \in Tasks : u < w => pc[u] # "idle"
          /\ pc' = [pc EXCEPT ![w] = "fetch"]
    /\ UNCHANGED <<hashseed, Locals, Files, History>>

\* except Exception as e: print(...)
Except(w, e) ==
    /\ err' = [err EXCEPT ![w] = e]
    /\ pc' = [pc EXCEPT ![w] = "sleep"]

\* data, etag, not_modified = await asyncio.to_thread(fetch_all_overrides_sync):
\* the worker thread reads ETAG_FILE as it is at that moment
Fetch(w) ==
    /\ pc[w] = "fetch"
    /\ \E p \in 1..Len(PayloadCatalogue) :
          LET inm == IfNoneMatch(etagFile)
              match == inm # "" /\ inm = ETagOf(p)
          IN  \/ /\ match
                 /\ data' = [data EXCEPT ![w] = EmptyDict]
                 /\ etag' = [etag EXCEPT ![w] = ""]
                 /\ not_modified' = [not_modified EXCEPT ![w] = TRUE]
                 /\ pc' = [pc EXCEPT ![w] = "post_nothing"]
                 /\ UNCHANGED err
              \/ /\ ~match
                 /\ data' = [data EXCEPT ![w] = PayloadCatalogue[p]]
                 /\ \E e \in {ETagOf(p), ""} : etag' = [etag EXCEPT ![w] = e]
                 /\ not_modified' = [not_modified EXCEPT ![w] = FALSE]
                 /\ pc' = [pc EXCEPT ![w] = "index"]
                 /\ UNCHANGED err
              \/ /\ Except(w, "RequestException")
                 /\ UNCHANGED <<data, etag, not_modified>>
    /\ UNCHANGED <<hashseed, new_idx, old_idx, changes, msg, sent, Files, History>>

\* await post_message(DISCORD_CHANNEL_ID, "Nothing Changed."): fetch_channel
\* can raise before anything is handed over, channel.send after it was
\* handed the content
PostNothingChanged(w) ==
    /\ pc[w] = "post_nothing"
    /\ CanRun(w)
    /\ \/ /\ sent' = [sent EXCEPT ![w] = Append(@, Truncate("Nothing Changed."))]
          /\ pc' = [pc EXCEPT ![w] = "sleep"]
          /\ UNCHANGED err
       \/ /\ Except(w, "DiscordException")
          /\ UNCHANGED sent
       \/ /\ Except(w, "DiscordException")
          /\ sent' = [sent EXCEPT ![w] = Append(@, Truncate("Nothing Changed."))]
    /\ UNCHANGED <<hashseed, data, etag, not_modified, new_idx, old_idx, changes, msg,
                   Files, History>>

\* new_idx = normalize_payload_to_index(data)
Index(w) ==
    /\ pc[w] = "index"
    /\ CanRun(w)
    /\ LET r == normalize_payload_to_index(data[w])
       IN  IF r.exc # ""
           THEN Except(w, r.exc) /\ UNCHANGED new_idx
           ELSE /\ new_idx' = [new_idx EXCEPT ![w] = r.out]
                /\ pc' = [pc EXCEPT ![w] = "load"]
                /\ UNCHANGED err
    /\ UNCHANGED <<hashseed, data, etag, not_modified, old_idx, changes, msg, sent, Files,
                   History>>

\* old_idx = load_snapshot()
LoadSnapshot(w) ==
    /\ pc[w] = "load"
    /\ old_idx' = [old_idx EXCEPT ![w] = load_snapshot(snapshotFile)]
    /\ pc' = [pc EXCEPT ![w] = "diff"]
    /\ UNCHANGED <<hashseed, data, etag, not_modified, new_idx, changes, msg, sent, err,
                   Files, History>>

\* added_q, removed_q, changed_q = compute_changes_quiz(old_idx, new_idx)
Diff(w) ==
    /\ pc[w] = "diff"
    /\ LET c == compute_changes_quiz(old_idx[w], new_idx[w], hashseed)
       IN  IF c.raised
           THEN Except(w, "ValueError") /\ UNCHANGED changes
           ELSE /\ changes' = [changes EXCEPT ![w] = c]
                /\ pc' = [pc EXCEPT ![w] = IF AnyChange(c) THEN "render" ELSE "save_etag"]
                /\ UNCHANGED err
    /\ UNCHANGED <<hashseed, data, etag, not_modified, new_idx, old_idx, msg, sent, Files,
                   History>>

\* msg = render_change_message_quiz(added_q, removed_q, changed_q, COURSE_ID)
Render(w) ==
    /\ pc[w] = "render"
    /\ LET m == render_change_message_quiz(changes[w].added, changes[w].removed,
                                           changes[w].changed, COURSE_ID)
       IN  /\ msg' = [msg EXCEPT ![w] = m]
           /\ pc' = [pc EXCEPT ![w] = IF m # "" THEN "post" ELSE "save_snapshot"]
    /\ UNCHANGED <<hashseed, data, etag, not_modified, new_idx, old_idx, changes, sent,
                   err, Files, History>>

\* PostReport inside its own try/except: a failed send is swallowed and the
\* iteration goes on to save the snapshot
PostReportSwallowed(w) ==
    /\ pc[w] = "post"
    /\ CanRun(w)
    /\ \/ /\ sent' = [sent EXCEPT ![w] = Append(@, Truncate(msg[w]))]
          /\ pc' = [pc EXCEPT ![w] = "save_snapshot"]
          /\ UNCHANGED err
       \/ /\ pc' = [pc EXCEPT ![w] = "save_snapshot"]
          /\ UNCHANGED <<sent, err>>
    /\ UNCHANGED <<hashseed, data, etag, not_modified, new_idx, old_idx, changes, msg,
                   Files, History>>

\* await post_message(DISCORD_CHANNEL_ID, msg): fetch_channel can raise
\* before anything is handed over, channel.send after it was handed the
\* content
PostReport(w) ==
    /\ pc[w] = "post"
    /\ CanRun(w)
    /\ \/ /\ sent' = [sent EXCEPT ![w] = Append(@, Truncate(msg[w]))]
          /\ pc' = [pc EXCEPT ![w] = "save_snapshot"]
          /\ UNCHANGED err
       \/ /\ Except(w, "DiscordException")
          /\ UNCHANGED sent
       \/ /\ Except(w, "DiscordException")
          /\ sent' = [sent EXCEPT ![w] = Append(@, Truncate(msg[w]))]
    /\ UNCHANGED <<hashseed, data, etag, not_modified, new_idx, old_idx, changes, msg,
                   Files, History>>

\* the history of the other tasks after task w has left the file as f
Others(hist, w, f) == [u \in Tasks |-> IF u = w THEN hist[u] ELSE f]

\* save_snapshot(new_idx): write_text opens the file for writing, which
\* truncates it, and then writes the text.  The open can fail, leaving the
\* file as it was, and the write can fail, leaving a part of the text, which
\* is not JSON.  The file is read on the event loop only, so no task sees it
\* between the open and the write.
SaveSnapshot(w) ==
    /\ pc[w] = "save_snapshot"
    /\ CanRun(w)
    /\ \/ /\ snapshotFile' = Stored(new_idx[w])
          /\ writes' = [writes EXCEPT ![w] = Append(@, "snapshot")]
          /\ pc' = [pc EXCEPT ![w] = "save_etag"]
          /\ UNCHANGED err
       \/ /\ Except(w, "OSError")
          /\ UNCHANGED <<snapshotFile, writes>>
       \/ /\ Except(w, "OSError")
          /\ snapshotFile' = Truncated
          /\ writes' = [writes EXCEPT ![w] = Append(@, "snapshot")]
    /\ snapAtStart' = Others(snapAtStart, w, snapshotFile')
    /\ UNCHANGED <<hashseed, data, etag, not_modified, new_idx, old_idx, changes, msg,
                   sent, etagFile, etagAtStart>>

\* save_etag(etag), up to the open of write_text: nothing is done for an
\* empty etag; the open can fail, leaving the file as it was, or succeed,
\* leaving it empty
SaveEtag(w) ==
    /\ pc[w] = "save_etag"
    /\ \/ /\ etag[w] = ""
          /\ pc' = [pc EXCEPT ![w] = "sleep"]
          /\ UNCHANGED <<etagFile, writes, err>>
       \/ /\ etag[w] # ""
          /\ Except(w, "OSError")
          /\ UNCHANGED <<etagFile, writes>>
       \/ /\ etag[w] # ""
          /\ etagFile' = [exists |-> TRUE, text |-> ""]
          /\ writes' = [writes EXCEPT ![w] = Append(@, "etag")]
          /\ pc' = [pc EXCEPT ![w] = "write_etag"]
          /\ UNCHANGED err
    /\ etagAtStart' = Others(etagAtStart, w, etagFile')
    /\ UNCHANGED <<hashseed, data, etag, not_modified, new_idx, old_idx, changes, msg,
                   sent, snapshotFile, snapAtStart>>

\* save_etag(etag), the write of write_text: it writes the text, or fails
\* and leaves the part of the text written so far
WriteEtag(w) ==
    /\ pc[w] = "write_etag"
    /\ \/ /\ etagFile' = [exists |-> TRUE, text |-> etag[w]]
          /\ pc' = [pc EXCEPT ![w] = "sleep"]
          /\ UNCHANGED err
       \/ /\ Except(w, "OSError")
          /\ \E n \in 0..(Len(etag[w]) - 1) :
                etagFile' = [exists |-> TRUE, text |-> SubSeq(etag[w], 1, n)]
    /\ etagAtStart' = Others(etagAtStart, w, etagFile')
    /\ UNCHANGED <<hashseed, data, etag, not_modified, new_idx, old_idx, changes, msg,
                   sent, snapshotFile, writes, snapAtStart>>

\* await asyncio.sleep(POLL_INTERVAL_SEC); the next iteration starts afresh
Sleep(w) ==
    /\ pc[w] = "sleep"
    /\ CanRun(w)
    /\ pc' = [pc EXCEPT ![w] = "fetch"]
    /\ data' = [data EXCEPT ![w] = EmptyDict]
    /\ etag' = [etag EXCEPT ![w] = ""]
    /\ not_modified' = [not_modified EXCEPT ![w] = FALSE]
    /\ new_idx' = [new_idx EXCEPT ![w] = EmptyIdx]
    /\ old_idx' = [old_idx EXCEPT ![w] = EmptyIdx]
    /\ changes' = [changes EXCEPT ![w] = NoChanges]
    /\ msg' = [msg EXCEPT ![w] = ""]
    /\ sent' = [sent EXCEPT ![w] = <<>>]
    /\ err' = [err EXCEPT ![w] = ""]
    /\ writes' = [writes EXCEPT ![w] = <<>>]
    /\ snapAtStart' = [snapAtStart EXCEPT ![w] = snapshotFile]
    /\ etagAtStart' = [etagAtStart EXCEPT ![w] = etagFile]
    /\ UNCHANGED <<hashseed, snapshotFile, etagFile>>

Next ==
    \/ OnReady
    \/ \E w \in Tasks : Fetch(w)
    \/ \E w \in Tasks : PostNothingChanged(w)
    \/ \E w \in Tasks : Index(w)
    \/ \E w \in Tasks : LoadSnapshot(w)
    \/ \E w \in Tasks : Diff(w)
    \/ \E w \in Tasks : Render(w)
    \/ \E w \in Tasks : PostReport(w)
    \/ \E w \in Tasks : SaveSnapshot(w)
    \/ \E w \in Tasks : SaveEtag(w)
    \/ \E w \in Tasks : WriteEtag(w)
    \/ \E w \in Tasks : Sleep(w)

Spec == Init /\ [][Next]_vars

(***************************************************************************)
(* The differ on drawn inputs                                              *)
(***************************************************************************)
\* one task, the others not created, stands before the given step with its
\* other locals as at the start of an iteration
InitOneTask(step) ==
    /\ pc = OnlyFirst(step, "idle")
    /\ etag = [w \in Tasks |-> ""]
    /\ not_modified = [w \in Tasks |-> FALSE]
    /\ changes = [w \in Tasks |-> NoChanges]
    /\ msg = [w \in Tasks |-> ""]
    /\ sent = [w \in Tasks |-> <<>>]
    /\ err = [w \in Tasks |-> ""]
    /\ InitFiles

InitDiff ==
    /\ \/ /\ hashseed \in IdSeeds
          /\ new_idx \in {OnlyFirst(x, EmptyIdx) : x \in IdSnapshots}
          /\ old_idx \in {OnlyFirst(x, EmptyIdx) : x \in IdSnapshots}
       \/ /\ hashseed \in KeySeeds
          /\ new_idx \in {OnlyFirst(x, EmptyIdx) : x \in GroupSnapshots}
          /\ old_idx \in {OnlyFirst(x, EmptyIdx) : x \in GroupSnapshots}
    /\ data = [w \in Tasks |-> EmptyDict]
    /\ InitOneTask("diff")

NextDiff == \E w \in Tasks : Diff(w)

SpecDiff == InitDiff /\ [][NextDiff]_vars

(***************************************************************************)
(* The differ and the renderer on drawn inputs                             *)
(***************************************************************************)
\* Snapshots to report on: identifiers with the same int() value, and one
\* identifier with a group of at most one entry.
ReportSnapshots ==
    [{"3", "0_3"} -> {<<>>, <<EntryA>>}]
        \cup [{"10"} -> {<<>>, <<EntryA>>, <<EntryB>>, <<EntryD>>, <<EntryG>>, <<EntryQ>>}]
        \cup {EmptyIdx}

InitReport ==
    /\ hashseed \in HashSeeds
    /\ new_idx \in {OnlyFirst(x, EmptyIdx) : x \in ReportSnapshots}
    /\ old_idx \in {OnlyFirst(x, EmptyIdx) : x \in ReportSnapshots}
    /\ data = [w \in Tasks |-> EmptyDict]
    /\ InitOneTask("diff")

NextReport == (\E w \in Tasks : Diff(w)) \/ (\E w \in Tasks : Render(w))

SpecReport == InitReport /\ [][NextReport]_vars

(***************************************************************************)
(* The indexer on drawn inputs                                             *)
(***************************************************************************)
InitIndex ==
    /\ hashseed = DUE_KEYS \o <<"10", "3", "0_3", "20", "3.5">>
    /\ data \in {OnlyFirst(x, EmptyDict) : x \in PayloadSpace}
    /\ new_idx = [w \in Tasks |-> EmptyIdx]
    /\ old_idx = [w \in Tasks |-> EmptyIdx]
    /\ InitOneTask("index")

NextIndex == (\E w \in Tasks : Index(w)) \/ (\E w \in Tasks : LoadSnapshot(w))

SpecIndex == InitIndex /\ [][NextIndex]_vars

TypeOK == pc \in [Tasks -> {"idle", "fetch", "post_nothing", "index", "load", "diff",
                            "render", "post", "save_snapshot", "save_etag", "write_etag",
                            "sleep"}]

(***************************************************************************)
(* Properties of the indexer (SpecIndex)                                   *)
(***************************************************************************)
\* normalize_payload_to_index has returned in task w
Indexed(w) == pc[w] = "load"

\* the items of a payload
ItemsOf(payload) == IterSeq(GetDefault(payload, "quiz_assignment_overrides", EmptyList))

\* the due_dates records of an item
RecordsOf(item) == IterSeq(DueDatesOf(item))

\* the composite key of an entry as the specification words it
DocKey(e) ==
    [title  |-> IF Truthy(Get(e, "title")) THEN Get(e, "title").v ELSE "",
     base   |-> Truthy(Get(e, "base")),
     due    |-> IF IsNone(Get(e, "due_at")) THEN "" ELSE Get(e, "due_at").v,
     unlock |-> IF IsNone(Get(e, "unlock_at")) THEN "" ELSE Get(e, "unlock_at").v,
     lock   |-> IF IsNone(Get(e, "lock_at")) THEN "" ELSE Get(e, "lock_at").v]

\* x is greater than y in the order: title, then base flag with TRUE first,
\* then due, unlock, lock
GreaterBaseFirst(x, y) ==
    IF x.title # y.title THEN StrLess(y.title, x.title)
    ELSE IF x.base # y.base THEN y.base
    ELSE IF x.due # y.due THEN StrLess(y.due, x.due)
    ELSE IF x.unlock # y.unlock THEN StrLess(y.unlock, x.unlock)
    ELSE StrLess(y.lock, x.lock)

\* x is greater than y in the order: title, then base flag with FALSE first,
\* then due, unlock, lock
GreaterBaseLast(x, y) ==
    IF x.title # y.title THEN StrLess(y.title, x.title)
    ELSE IF x.base # y.base THEN x.base
    ELSE IF x.due # y.due THEN StrLess(y.due, x.due)
    ELSE IF x.unlock # y.unlock THEN StrLess(y.unlock, x.unlock)
    ELSE StrLess(y.lock, x.lock)

\* C8 as stated: in every group of the index, no entry is greater than the
\* next one under (title ascending, base flag descending, due_at, unlock_at,
\* lock_at as strings with null as "").
C8_SortedBaseFirst ==
    \A w \in Tasks : Indexed(w) =>
        \A q \in DOMAIN new_idx[w] : \A i \in 1..(Len(new_idx[w][q]) - 1) :
            ~GreaterBaseFirst(DocKey(new_idx[w][q][i]), DocKey(new_idx[w][q][i + 1]))

\* C8 amended: in every group of the index, no entry is greater than the
\* next one under (title ascending, base flag ascending: entries whose base
\* flag is false or null before entries whose base flag is true, then due_at,
\* unlock_at, lock_at as strings with null as "").
C8_SortedBaseLast ==
    \A w \in Tasks : Indexed(w) =>
        \A q \in DOMAIN new_idx[w] : \A i \in 1..(Len(new_idx[w][q]) - 1) :
            ~GreaterBaseLast(DocKey(new_idx[w][q][i]), DocKey(new_idx[w][q][i + 1]))

\* a payload that lists the base entry of a title before the non-base one has
\* been indexed, and the group holds them the other way round
C8_Witness ==
    \E w \in Tasks :
        /\ Indexed(w)
        /\ \E i \in 1..Len(ItemsOf(data[w])) :
              /\ Get(ItemsOf(data[w])[i], "quiz_id") = JInt(10)
              /\ RecordsOf(ItemsOf(data[w])[i]) = <<RawD, RawC>>
        /\ "10" \in DOMAIN new_idx[w]
        /\ new_idx[w]["10"] = <<EntryC, EntryD>>

\* the payload items that carry an identifier
Identified(items) == {i \in 1..Len(items) : ~IsNone(Get(items[i], "quiz_id"))}

\* C9: the index has exactly one key per distinct stringified identifier of
\* the payload, and the group under a key contains the normalized form of
\* every child record of every payload item carrying that identifier.
C9_NoRecordLost ==
    \A w \in Tasks : Indexed(w) =>
        LET items == ItemsOf(data[w])
        IN  /\ DOMAIN new_idx[w]
                  = {PyStr(Get(items[i], "quiz_id")) : i \in Identified(items)}
            /\ \A i \in Identified(items) :
                  \A j \in 1..Len(RecordsOf(items[i])) :
                     \E k \in 1..Len(new_idx[w][PyStr(Get(items[i], "quiz_id"))]) :
                        new_idx[w][PyStr(Get(items[i], "quiz_id"))][k]
                            = normalize_due_entry(RecordsOf(items[i])[j])

(***************************************************************************)
(* Properties of the differ (SpecDiff) and of the report (SpecReport)      *)
(***************************************************************************)
\* compute_changes_quiz has returned a ChangeSet in this iteration of task w
DiffReturned(w) ==
    pc[w] \in {"render", "post", "save_snapshot", "save_etag", "write_etag"}

\* C1: the ChangeSet of two snapshots whose identifiers parse is empty if and
\* only if the two snapshots are equal: the same identifiers, groups of the
\* same length and, field by field, the same JSON values.
C1_EmptyIffEqual ==
    \A w \in Tasks : DiffReturned(w) => (~AnyChange(changes[w]) <=> old_idx[w] = new_idx[w])

Elements(seq) == {seq[i] : i \in 1..Len(seq)}

\* seq lists the members of S, each once
ListsExactly(seq, S) == Len(seq) = Cardinality(S) /\ Elements(seq) = S

\* seq is in ascending order of int()
AscendingInt(seq) == \A i, j \in 1..Len(seq) : i < j => IntOf(seq[i]) <= IntOf(seq[j])

\* C2: added lists exactly the identifiers of new that old lacks, removed
\* exactly those of old that new lacks, both in ascending numeric order, and
\* swapping the arguments swaps added and removed.
C2_AddedRemoved ==
    \A w \in Tasks : DiffReturned(w) =>
        /\ ListsExactly(changes[w].added, DOMAIN new_idx[w] \ DOMAIN old_idx[w])
        /\ ListsExactly(changes[w].removed, DOMAIN old_idx[w] \ DOMAIN new_idx[w])
        /\ AscendingInt(changes[w].added)
        /\ AscendingInt(changes[w].removed)
        /\ compute_changes_quiz(new_idx[w], old_idx[w], hashseed).removed = changes[w].added
        /\ compute_changes_quiz(new_idx[w], old_idx[w], hashseed).added = changes[w].removed

\* "3" and "20" were added to a snapshot that held "0_3", and "3" was kept:
\* added is 3, 20 and nothing was removed
C2_Witness ==
    \E w \in Tasks :
        /\ DiffReturned(w)
        /\ DOMAIN old_idx[w] = {"0_3"}
        /\ changes[w].added = <<"3", "20">>
        /\ changes[w].removed = <<>>

\* the record the claim prescribes for Python index i of groups a and b,
\* as the set of its (field, old, new) triples; empty when no record is due
ExpectedFields(a, b, i) ==
    LET left  == IF i < Len(a) THEN a[i + 1] ELSE JNull
        right == IF i < Len(b) THEN b[i + 1] ELSE JNull
    IN  IF IsNone(left) \/ IsNone(right)
        THEN {<<"<entry>", left, right>>}
        ELSE {<<k, Get(left, k), Get(right, k)>> :
                 k \in {x \in DueKeySet : Get(left, x) # Get(right, x)}}

\* the position records of identifier q in a changed list
DiffsOf(changed, q) ==
    IF \E j \in 1..Len(changed) : changed[j][1] = q
    THEN changed[CHOOSE j \in 1..Len(changed) : changed[j][1] = q][2]
    ELSE <<>>

\* C3: for every common identifier the position records are, in ascending
\* position order, exactly: none where both entries are equal, the differing
\* fields where both exist and differ, the whole-entry record where one side
\* has no entry; the identifier is in changed exactly when there is a record.
C3_PositionRecords ==
    \A w \in Tasks : DiffReturned(w) =>
        /\ \A j \in 1..Len(changes[w].changed) :
              changes[w].changed[j][1] \in DOMAIN old_idx[w] \cap DOMAIN new_idx[w]
        /\ \A q \in DOMAIN old_idx[w] \cap DOMAIN new_idx[w] :
              LET a == old_idx[w][q]
                  b == new_idx[w][q]
                  n == IF Len(a) > Len(b) THEN Len(a) ELSE Len(b)
                  D == DiffsOf(changes[w].changed, q)
                  P == {i \in 0..(n - 1) : ExpectedFields(a, b, i) # {}}
              IN  /\ Cardinality({j \in 1..Len(changes[w].changed) :
                                    changes[w].changed[j][1] = q})
                        = IF P # {} THEN 1 ELSE 0
                  /\ Len(D) = Cardinality(P)
                  /\ \A j \in 1..Len(D) :
                        /\ D[j][1] \in P
                        /\ ListsExactly(D[j][2], ExpectedFields(a, b, D[j][1]))
                  /\ \A j \in 1..(Len(D) - 1) : D[j][1] < D[j + 1][1]

\* C7: the report does not depend on the hash seed of the run: whatever the
\* iteration order of str sets, the same old and new snapshots give the same
\* text.
C7_ReportDeterministic ==
    \A w \in Tasks : pc[w] = "post" =>
        \A seed \in HashSeeds :
            LET c == compute_changes_quiz(old_idx[w], new_idx[w], seed)
            IN  msg[w] = render_change_message_quiz(c.added, c.removed, c.changed, COURSE_ID)

(***************************************************************************)
(* Properties of the watcher tasks (Spec)                                  *)
(***************************************************************************)
\* the iteration of task w is over: the loop body has reached asyncio.sleep
IterationOver(w) == pc[w] = "sleep"

\* the iteration of task w ended in the except clause before save_snapshot
\* was reached
FailedBeforeSave(w) ==
    err[w] \in {"RequestException", "AttributeError", "TypeError", "ValueError",
                "DiscordException"}

\* times task w opened the file for writing in its current iteration
Opened(w, file) == Cardinality({i \in 1..Len(writes[w]) : writes[w][i] = file})

\* C4: in an iteration of a watcher task the snapshot file is opened for
\* writing at most once; that happens only after a non-empty ChangeSet was
\* rendered into a non-empty report that was handed to the channel, and the
\* write is completed when such an iteration ends without an error; as long
\* as the iteration has not opened the file, and so at the end of an
\* iteration that got 304, computed an empty ChangeSet or failed at fetch,
\* index, diff or notify, the stored snapshot is unchanged: it is as the
\* iteration found it, or as the iteration of another task has written it
\* meanwhile.
C4_WriteAfterReport ==
    \A w \in Tasks :
        /\ Opened(w, "snapshot") <= 1
        /\ Opened(w, "snapshot") = 1 =>
              /\ AnyChange(changes[w])
              /\ msg[w] # ""
              /\ sent[w] = <<Truncate(msg[w])>>
        /\ (pc[w] \in {"save_etag", "write_etag"} /\ Opened(w, "snapshot") = 1)
              => snapshotFile = Stored(new_idx[w])
        /\ Opened(w, "snapshot") = 0 => snapshotFile = snapAtStart[w]
        /\ (IterationOver(w) /\ err[w] = "" /\ AnyChange(changes[w]))
              => Opened(w, "snapshot") = 1
        /\ (IterationOver(w)
              /\ (not_modified[w] \/ ~AnyChange(changes[w]) \/ FailedBeforeSave(w)))
              => (Opened(w, "snapshot") = 0 /\ snapshotFile = snapAtStart[w])

\* an iteration that found a change against an existing snapshot has ended
\* after replacing it, while the iteration of the other task, whose send
\* raised after the report was handed over, has ended without writing
C4_Witness ==
    \E w, u \in Tasks :
        /\ IterationOver(w)
        /\ err[w] = ""
        /\ old_idx[w] # EmptyIdx
        /\ Opened(w, "snapshot") = 1
        /\ snapshotFile = Stored(new_idx[w])
        /\ snapAtStart[w] # snapshotFile
        /\ IterationOver(u)
        /\ err[u] = "DiscordException"
        /\ sent[u] # <<>>
        /\ AnyChange(changes[u])

\* C5: an iteration in which the server answered 304, or whose ChangeSet is
\* empty, sends nothing to the channel; an iteration that computed a
\* non-empty ChangeSet and ended without an error sent exactly one non-empty
\* report.
C5_NotifyOnlyOnChange ==
    \A w \in Tasks :
        /\ not_modified[w] => sent[w] = <<>>
        /\ (DiffReturned(w) /\ ~AnyChange(changes[w])) => sent[w] = <<>>
        /\ (IterationOver(w) /\ ~not_modified[w] /\ err[w] = "" /\ ~AnyChange(changes[w]))
              => sent[w] = <<>>
        /\ (IterationOver(w) /\ err[w] = "" /\ AnyChange(changes[w]))
              => (Len(sent[w]) = 1 /\ sent[w][1] # "")

\* compute_changes_quiz has been called in this iteration of task w
DiffCalled(w) ==
    \/ DiffReturned(w)
    \/ /\ IterationOver(w)
       /\ ~not_modified[w]
       /\ err[w] \notin {"RequestException", "AttributeError", "TypeError"}

\* C6: when an identifier of old or new does not parse as an integer,
\* compute_changes_quiz raises and returns no ChangeSet, and the iteration
\* ends having sent nothing and with the stored snapshot and the stored ETag
\* unchanged: it has opened neither file, and both are as it found them or
\* as the iteration of another task has written them meanwhile.
C6_UnsortableRaises ==
    \A w \in Tasks :
        (DiffCalled(w) /\ \E q \in DOMAIN old_idx[w] \cup DOMAIN new_idx[w] : ~ParsesInt(q)) =>
            /\ IterationOver(w)
            /\ err[w] = "ValueError"
            /\ changes[w] = NoChanges
            /\ sent[w] = <<>>
            /\ writes[w] = <<>>
            /\ snapshotFile = snapAtStart[w]
            /\ etagFile = etagAtStart[w]

\* the stored snapshot holds the identifier "3.5"; one task diffed it against
\* a payload without that identifier (it is in the removed set) and the other
\* against a payload with it (it is in the common set), and both raised
C6_Witness ==
    \E w, u \in Tasks :
        /\ DiffCalled(w)
        /\ "3.5" \in DOMAIN old_idx[w] \ DOMAIN new_idx[w]
        /\ new_idx[w] # EmptyIdx
        /\ err[w] = "ValueError"
        /\ DiffCalled(u)
        /\ "3.5" \in DOMAIN old_idx[u] \cap DOMAIN new_idx[u]
        /\ err[u] = "ValueError"

\* every created task is between two iterations
BetweenIterations ==
    /\ \A w \in Tasks : pc[w] \in {"idle", "fetch"}
    /\ \E w \in Tasks : pc[w] = "fetch"

\* C10: between iterations, a stored ETag is the ETag of a payload whose
\* index is the stored snapshot.
C10_EtagMatchesSnapshot ==
    (BetweenIterations /\ IfNoneMatch(etagFile) # "") =>
        \E p \in 1..Len(PayloadCatalogue) :
            /\ ETagOf(p) = IfNoneMatch(etagFile)
            /\ normalize_payload_to_index(PayloadCatalogue[p]).exc = ""
            /\ load_snapshot(snapshotFile) = normalize_payload_to_index(PayloadCatalogue[p]).out

====
